---- MODULE Spec2Model ----
(***************************************************************************)
(* A model of organizer/core.py: Organizer.plan, Organizer.apply and       *)
(* UndoManager.undo acting on a file system.                               *)
(*                                                                         *)
(* A file name is a sequence of tokens (a token stands for a run of        *)
(* characters; "." and "/" are tokens of their own), a path is a sequence  *)
(* of names below the file system root, and str(path) is the token         *)
(* sequence with a "/" before every name.                                  *)
(***************************************************************************)
EXTENDS Integers, Sequences, FiniteSets, TLC

VARIABLES
    fs,        \* the file system: existing path -> entry (directory or file)
    org,       \* the Organizer object (its constructor arguments)
    pc,        \* position of the run: plan, apply loop, undo loop
    moves,     \* the list plan() returned
    dry,       \* the dry_run argument of the running apply() / undo()
    i,         \* apply(): index of the next move of the for loop
    applied,   \* apply(): the list `applied` of (str src, str final_dest)
    manifest,  \* the JSON document stored in the manifest file (<<>> if never written)
    writes,    \* number of times apply() wrote the manifest file
    ops,       \* undo(): data["operations"] as loaded
    j,         \* undo(): position in reversed(ops) of the next operation to reverse
    undoLog,   \* history: the (from, to) pairs undo() visited, in order
    before,    \* history: the file system when apply() was entered
    beforeUndo,\* history: the file system when undo() was entered
    removed,   \* number of files removed by other programs between the runs
    run,       \* number of the current invocation of plan() and apply()
    first      \* history: what the previous invocation recorded, and the file
               \*          system it left (<<>> in the first invocation)

vars == <<fs, org, pc, moves, dry, i, applied, manifest, writes, ops, j, undoLog,
          before, beforeUndo, removed, run, first>>

----------------------------------------------------------------------------
(* Bounds of the model                                                     *)

MaxFiles == 3
MaxEnvRemoves == 1
MaxRuns == 2
MaxArrivals == 1

----------------------------------------------------------------------------
(* Names and paths                                                         *)

Last(s) == s[Len(s)]
Front(s) == SubSeq(s, 1, Len(s) - 1)

RECURSIVE Flatten(_)
Flatten(ss) == IF ss = <<>> THEN <<>> ELSE Head(ss) \o Flatten(Tail(ss))

\* str(Path): "/" + "/".join(parts) for an absolute path
PathStr(p) == Flatten([k \in 1..Len(p) |-> <<"/">> \o p[k]])

\* Path(str): split the string at every "/"
RECURSIVE ParsePath(_, _, _)
ParsePath(s, acc, cur) ==
    IF s = <<>> THEN (IF cur = <<>> THEN acc ELSE Append(acc, cur))
    ELSE IF Head(s) = "/"
         THEN ParsePath(Tail(s), IF cur = <<>> THEN acc ELSE Append(acc, cur), <<>>)
         ELSE ParsePath(Tail(s), acc, Append(cur, Head(s)))

PathOf(s) == ParsePath(s, <<>>, <<>>)

\* `a in b` on strings: a is a contiguous part of b
IsSubstring(a, b) ==
    \E k \in 0..(Len(b) - Len(a)) : SubSeq(b, k + 1, k + Len(a)) = a

IsPrefix(p, q) == Len(p) <= Len(q) /\ SubSeq(q, 1, Len(p)) = p
IsProperPrefix(p, q) == Len(p) < Len(q) /\ SubSeq(q, 1, Len(p)) = p

\* str.rfind("."): the last position of a "." token, 0 if there is none
RECURSIVE RFindDot(_, _)
RFindDot(name, k) ==
    IF k = 0 THEN 0 ELSE IF name[k] = "." THEN k ELSE RFindDot(name, k - 1)

\* PurePath.suffix: the last dot-separated part, with its dot, unless the only
\* dot leads or ends the name
Suffix(name) ==
    LET d == RFindDot(name, Len(name))
    IN  IF 1 < d /\ d < Len(name) THEN SubSeq(name, d, Len(name)) ELSE <<>>

\* PurePath.stem: the name without its suffix
Stem(name) ==
    LET d == RFindDot(name, Len(name))
    IN  IF 1 < d /\ d < Len(name) THEN SubSeq(name, 1, d - 1) ELSE name

\* str.lower() on one token
LowerTok(t) ==
    CASE t = "TXT" -> "txt"
      [] t = "JPG" -> "jpg"
      [] t = "README" -> "readme"
      [] OTHER -> t

\* (mutant) the case is kept
NoLower(s) == s

Lower(s) == [k \in 1..Len(s) |-> LowerTok(s[k])]

\* str.lstrip("."): drop every leading "."
RECURSIVE LStripDot(_)
LStripDot(s) ==
    IF s # <<>> /\ Head(s) = "." THEN LStripDot(Tail(s)) ELSE s

\* f" ({counter})" as one token
CounterToks == <<" (1)", " (2)", " (3)", " (4)", " (5)", " (6)", " (7)", " (8)">>
CounterTok(counter) == CounterToks[counter]

----------------------------------------------------------------------------
(* The file system                                                         *)

Dir == [kind |-> "dir", data |-> "", mtime |-> "", ctime |-> ""]
File(data, mtime, ctime) == [kind |-> "file", data |-> data, mtime |-> mtime, ctime |-> ctime]

Exists(f, p) == p \in DOMAIN f
IsDir(f, p) == p \in DOMAIN f /\ f[p].kind = "dir"
IsFile(f, p) == p \in DOMAIN f /\ f[p].kind = "file"

\* p's parent (Path.parent) and final component (Path.name)
Parent(p) == Front(p)
Name(p) == Last(p)

\* a path and its ancestors below the file system root "/" (which always exists)
Chain(p) == {SubSeq(p, 1, k) : k \in 1..Len(p)}

Put(f, p, e) == [q \in DOMAIN f \cup {p} |-> IF q = p THEN e ELSE f[q]]
Del(f, p) == [q \in DOMAIN f \ {p} |-> f[q]]

\* Path.mkdir(parents=True, exist_ok=True): fails when the path or one of its
\* ancestors exists and is not a directory
MkdirOk(f, d) == \A q \in Chain(d) : Exists(f, q) => IsDir(f, q)
Mkdir(f, d) ==
    [q \in DOMAIN f \cup Chain(d) |-> IF q \in DOMAIN f THEN f[q] ELSE Dir]

ParentIsDir(f, p) == Len(p) > 0 /\ (Len(p) = 1 \/ IsDir(f, Parent(p)))

\* where shutil.move / shutil.copy2 put the file: inside dst when dst is a directory
RealDst(f, src, dst) == IF IsDir(f, dst) THEN Append(dst, Name(src)) ELSE dst

\* shutil.move(src, dst) of a regular file: os.rename, which replaces a file
\* found at the destination; an error when src is missing, when dst is a
\* directory that already holds an entry of src's name, or when the
\* destination's directory is missing
ShutilMoveOk(f, src, dst) ==
    /\ IsFile(f, src)
    /\ (IsDir(f, dst) => ~Exists(f, Append(dst, Name(src))))
    /\ ParentIsDir(f, RealDst(f, src, dst))
\* (mutant) the source is left in place, as by a copy
ShutilMoveKeepsSource(f, src, dst) ==
    IF ShutilMoveOk(f, src, dst)
    THEN Put(f, RealDst(f, src, dst), [f[src] EXCEPT !.ctime = "now"])
    ELSE f
ShutilMove(f, src, dst) ==
    IF ShutilMoveOk(f, src, dst)
    THEN Put(Del(f, src), RealDst(f, src, dst), [f[src] EXCEPT !.ctime = "now"])
    ELSE f

\* shutil.copy2(src, dst): the content and the modification time are copied,
\* the source stays
ShutilCopy2Ok(f, src, dst) ==
    /\ IsFile(f, src)
    /\ RealDst(f, src, dst) # src
    /\ ParentIsDir(f, RealDst(f, src, dst))
ShutilCopy2(f, src, dst) ==
    IF ShutilCopy2Ok(f, src, dst)
    THEN Put(f, RealDst(f, src, dst), [f[src] EXCEPT !.ctime = "now"])
    ELSE f

\* open(path, "w") and write: creates or truncates the file
WriteOk(f, p) == ~IsDir(f, p) /\ ParentIsDir(f, p)
WriteFile(f, p, data) == Put(f, p, File(data, "now", "now"))

----------------------------------------------------------------------------
(* Organizer._iter_files                                                   *)

\* fnmatch.fnmatchcase(name, pat): "*" matches any run of characters
RECURSIVE FnMatch(_, _)
FnMatch(name, pat) ==
    IF pat = <<>> THEN name = <<>>
    ELSE IF Head(pat) = "*"
         THEN \E k \in 0..Len(name) : FnMatch(SubSeq(name, k + 1, Len(name)), Tail(pat))
         ELSE name # <<>> /\ Head(name) = Head(pat) /\ FnMatch(Tail(name), Tail(pat))

\* PurePath.match(pattern) for a relative pattern: the pattern's parts are
\* matched against the last parts of the path
PathMatch(rel, pat) ==
    /\ Len(pat) <= Len(rel)
    /\ \A k \in 1..Len(pat) : FnMatch(rel[Len(rel) - Len(pat) + k], pat[k])

\* p.relative_to(root)
RelativeTo(p, root) == SubSeq(p, Len(root) + 1, Len(p))

\* (mutant) the depth is compared with >= : a file at depth max_depth is skipped
TooDeepFromLimit(o, p) == o.max_depth # <<>> /\ Len(p) - Len(o.root) >= o.max_depth[1]

\* len(p.parts) - root_depth > max_depth, when max_depth is not None
TooDeep(o, p) == o.max_depth # <<>> /\ Len(p) - Len(o.root) > o.max_depth[1]

\* (mutant) no test for the destination: every file under root is a candidate
InDestNever(o, p) == FALSE

\* str(self.dest) in str(p.parent.resolve())
InDest(o, p) == IsSubstring(PathStr(o.dest), PathStr(Parent(p)))

\* the conditions under which _iter_files yields the entry p of root.rglob("*")
Yielded(f, o, p) ==
    /\ IsProperPrefix(o.root, p)
    /\ IsDir(f, o.root)
    /\ IsFile(f, p)
    /\ ~TooDeep(o, p)
    /\ ~InDest(o, p)
    /\ (o.include # <<>> =>
            \E k \in 1..Len(o.include) : PathMatch(RelativeTo(p, o.root), o.include[k]))
    /\ ~(o.exclude # <<>> /\
            \E k \in 1..Len(o.exclude) : PathMatch(RelativeTo(p, o.root), o.exclude[k]))

YieldedSet(f, o) == {p \in DOMAIN f : Yielded(f, o, p)}

\* the orders in which rglob("*") can enumerate the files of S: scandir order
\* within a directory is arbitrary, a directory's own entries come before
\* those of its subdirectories, and a subtree is enumerated as one block
WalkOrders(S) ==
    {s \in [1..Cardinality(S) -> S] :
        /\ \A a, b \in 1..Cardinality(S) : a # b => s[a] # s[b]
        /\ \A a, b \in 1..Cardinality(S) :
              IsProperPrefix(Parent(s[a]), Parent(s[b])) => a < b
        /\ \A a, b, c \in 1..Cardinality(S) :
              (a < b /\ b < c) =>
                  \A k \in 1..Len(s[a]) :
                      LET d == SubSeq(s[a], 1, k)
                      IN  (IsPrefix(d, s[c]) => IsPrefix(d, s[b]))}

----------------------------------------------------------------------------
(* Organizer._group_dir_for and Organizer.plan                             *)

\* mimetypes.guess_type(name)[0], looked up by the lowercased extension
MimeType(name) ==
    LET ext == Lower(Suffix(name))
    IN  CASE ext = <<".", "txt">> -> <<"text", "/", "plain">>
          [] ext = <<".", "jpg">> -> <<"image", "/", "jpeg">>
          [] OTHER -> <<>>

\* s.split("/")[0]
RECURSIVE BeforeSlash(_)
BeforeSlash(s) ==
    IF s = <<>> \/ Head(s) = "/" THEN <<>> ELSE <<Head(s)>> \o BeforeSlash(Tail(s))

\* datetime.fromtimestamp(ts) formatted as f"{year}/{month:02d}/{day:02d}"
DateStr(ts) ==
    CASE ts = "t1" -> <<"2024", "/", "01", "/", "05">>
      [] ts = "t2" -> <<"2023", "/", "11", "/", "20">>
      [] OTHER -> <<"2025", "/", "06", "/", "30">>

GroupKnown(o) == o.by \in {"ext", "mime", "date"}

\* the string `group` of _group_dir_for
Group(f, o, file) ==
    CASE o.by = "ext" ->
            LET ext == LStripDot(Lower(Suffix(Name(file))))
            IN  IF ext # <<>> THEN ext ELSE <<"no-ext">>
      [] o.by = "mime" ->
            LET mt == MimeType(Name(file))
            IN  IF mt = <<>> THEN <<"unknown">> ELSE BeforeSlash(mt)
      [] o.by = "date" ->
            DateStr(IF o.date_field = "mtime" THEN f[file].mtime ELSE f[file].ctime)

\* self.dest / group
GroupDirFor(f, o, file) == o.dest \o PathOf(Group(f, o, file))

\* Move(src=f, dest=target_dir / f.name)
MoveOf(f, o, file) == [src |-> file, dest |-> Append(GroupDirFor(f, o, file), Name(file))]

\* the moves plan() returns when rglob enumerates the yielded files in order s
PlanOf(f, o, s) == [k \in 1..Len(s) |-> MoveOf(f, o, s[k])]

----------------------------------------------------------------------------
(* Organizer.apply                                                         *)

\* target_dir / f"{stem} ({counter}){suffix}"
Candidate(dest, counter) ==
    Append(Parent(dest), Stem(Name(dest)) \o <<CounterTok(counter)>> \o Suffix(Name(dest)))

\* (mutant) only "stem (1)suffix" is tried, without looking whether it exists
DisambiguateOnce(f, dest, final_dest, counter) ==
    IF Exists(f, final_dest) THEN Candidate(dest, counter) ELSE final_dest

\* (mutant) the counter is put after the name tried last: "stem (1) (1)suffix"
RECURSIVE DisambiguateStacked(_, _, _, _)
DisambiguateStacked(f, dest, final_dest, counter) ==
    IF Exists(f, final_dest)
    THEN DisambiguateStacked(f, dest, Candidate(final_dest, 1), counter + 1)
    ELSE final_dest

\* the while loop of apply(): the first of dest, "stem (1)suffix",
\* "stem (2)suffix", ... that does not exist
RECURSIVE Disambiguate(_, _, _, _)
Disambiguate(f, dest, final_dest, counter) ==
    IF Exists(f, final_dest)
    THEN Disambiguate(f, dest, Candidate(dest, counter), counter + 1)
    ELSE final_dest

\* (mutant) the planned target is used without looking for an existing entry
FinalDestNoCheck(f, dest) == dest

FinalDest(f, dest) == Disambiguate(f, dest, dest, 1)

\* (mutant) self.copy is not looked at: the file is always moved
TransferAlwaysMove(f, o, src, dst) == ShutilMove(f, src, dst)

\* (mutant) an error of the copy or move is swallowed and the loop goes on
TransferOkSwallowed(f, o, src, dst) == TRUE

\* shutil.copy2 or shutil.move, per self.copy
TransferOk(f, o, src, dst) ==
    IF o.copy THEN ShutilCopy2Ok(f, src, dst) ELSE ShutilMoveOk(f, src, dst)
Transfer(f, o, src, dst) ==
    IF o.copy THEN ShutilCopy2(f, src, dst) ELSE ShutilMove(f, src, dst)

\* (mutant) the planned target is recorded, not the realized one
RecordedPlanned(m, final_dest) == <<PathStr(m.src), PathStr(m.dest)>>

\* applied.append((str(m.src), str(final_dest)))
Recorded(m, final_dest) == <<PathStr(m.src), PathStr(final_dest)>>

\* (mutant) the target directories are made before dry_run is looked at
DryRunApplyMkdir(f, ms) ==
    [q \in DOMAIN f \cup UNION {Chain(Parent(ms[k].dest)) : k \in 1..Len(ms)} |->
        IF q \in DOMAIN f THEN f[q] ELSE Dir]

\* the file system a dry run of apply() leaves: it only logs the moves
DryRunApply(f, ms) == f

\* the dict dumped to the manifest file
ManifestOf(o, done) ==
    [version |-> 1, copy |-> o.copy, by |-> o.by, date_field |-> o.date_field,
     root |-> PathStr(o.root), dest |-> PathStr(o.dest),
     operations |-> [k \in 1..Len(done) |-> [src |-> done[k][1], dest |-> done[k][2]]]]

----------------------------------------------------------------------------
(* UndoManager.undo                                                        *)

\* (mutant) the operations are taken in the order of the manifest
NotReversed(s) == s

\* reversed(ops)
Reversed(s) == [k \in 1..Len(s) |-> s[Len(s) + 1 - k]]

\* src = Path(op["dest"]) and dest = Path(op["src"])
UndoSrc(op) == PathOf(op.dest)
\* (mutant) the recorded pair is not swapped
UndoDestUnswapped(op) == PathOf(op.dest)

UndoDest(op) == PathOf(op.src)

\* (mutant) an error of shutil.move is swallowed and the loop goes on
UndoMoveOkSwallowed(f, src, dest) == TRUE

\* shutil.move(src, dest) in the loop of undo(): nothing catches its error
UndoMoveOk(f, src, dest) == ShutilMoveOk(f, src, dest)

\* (mutant) the dry run moves the file all the same
DryRunUndoMoves(f, op) == ShutilMove(f, UndoSrc(op), UndoDest(op))

\* the file system a dry run of undo() leaves after one operation: it only logs
DryRunUndo(f, op) == f

----------------------------------------------------------------------------
(* The initial states: a file system and an Organizer                      *)

inbox == <<"inbox">>
out == <<"out">>
sub == <<"sub">>
orgd == <<"org">>
org2 == <<"org", "2">>
txt == <<"txt">>
a_txt == <<"a", ".", "txt">>
a1_txt == <<"a", " (1)", ".", "txt">>
b_JPG == <<"b", ".", "JPG">>
README == <<"README">>
dot_rc == <<".", "rc">>
m_json == <<"m", ".", "json">>

\* the files an initial file system is drawn from
Pool == <<
    [path |-> <<inbox, a_txt>>,            data |-> "d1", mtime |-> "t1", ctime |-> "t2"],
    [path |-> <<inbox, sub, a_txt>>,       data |-> "d2", mtime |-> "t2", ctime |-> "t2"],
    [path |-> <<inbox, org2, a_txt>>,      data |-> "d3", mtime |-> "t1", ctime |-> "t1"],
    [path |-> <<inbox, b_JPG>>,            data |-> "d4", mtime |-> "t2", ctime |-> "t1"],
    [path |-> <<inbox, sub, README>>,      data |-> "d5", mtime |-> "t1", ctime |-> "t2"],
    [path |-> <<inbox, dot_rc>>,           data |-> "d6", mtime |-> "t2", ctime |-> "t2"],
    [path |-> <<inbox, orgd, txt, a_txt>>, data |-> "d7", mtime |-> "t1", ctime |-> "t1"],
    [path |-> <<out, txt, a_txt>>,         data |-> "d8", mtime |-> "t2", ctime |-> "t1"],
    [path |-> <<out, txt, a1_txt>>,        data |-> "d9", mtime |-> "t1", ctime |-> "t2"] >>

FsOf(S) ==
    LET files == {Pool[k].path : k \in S}
        dirs == UNION {Chain(Parent(p)) : p \in files}
        entry(p) == LET k == CHOOSE n \in S : Pool[n].path = p
                    IN  File(Pool[k].data, Pool[k].mtime, Pool[k].ctime)
    IN  [p \in files \cup dirs |-> IF p \in files THEN entry(p) ELSE Dir]

InitialFs == {FsOf(S) : S \in {T \in SUBSET (1..Len(Pool)) : Cardinality(T) <= MaxFiles}}

Organizer(root, dest, by, date_field, copy, include, exclude, max_depth, manifest_path) ==
    [root |-> root, dest |-> dest, by |-> by, date_field |-> date_field, copy |-> copy,
     include |-> include, exclude |-> exclude, max_depth |-> max_depth,
     manifest_path |-> manifest_path]

\* None is written <<>>: an absent include / exclude list, max_depth or manifest_path
Groupings == {<<"ext", "mtime">>, <<"mime", "mtime">>, <<"date", "mtime">>, <<"date", "ctime">>}
Dests == {<<out>>, <<inbox, orgd>>}
ManifestPaths == {<<>>, <<m_json>>, <<inbox, m_json>>}

TxtOnly == << <<<<"*", ".", "txt">>>> >>       \* ["*.txt"]
InSub == << <<sub, <<"*">>>> >>                \* ["sub/*"]
NotA == << <<<<"a", ".", "*">>>> >>            \* ["a.*"]

\* the Organizers of the runs: every destination, transfer mode and manifest
\* path under grouping by extension, and every grouping and destination for a
\* move with a manifest
Organizers ==
    {Organizer(<<inbox>>, d, "ext", "mtime", c, <<>>, <<>>, <<>>, mp) :
        d \in Dests, c \in BOOLEAN, mp \in ManifestPaths}
    \cup
    {Organizer(<<inbox>>, d, g[1], g[2], FALSE, <<>>, <<>>, <<>>, <<m_json>>) :
        d \in Dests, g \in Groupings}

\* the Organizers of the runs that exercise the filters of _iter_files: root a
\* directory, a regular file or absent; include and exclude lists; max_depth
FilterOrganizers ==
    {Organizer(r, d, "ext", "mtime", FALSE, inc, exc, md, <<m_json>>) :
        r \in {<<inbox>>, <<inbox, sub, README>>}, d \in Dests,
        inc \in {<<>>, TxtOnly, InSub}, exc \in {<<>>, NotA},
        md \in {<<>>, <<0>>, <<1>>, <<2>>}}

InitWith(fss, orgs) ==
    /\ fs \in fss
    /\ org \in orgs
    /\ pc = "start"
    /\ moves = <<>>
    /\ dry = FALSE
    /\ i = 0
    /\ applied = <<>>
    /\ manifest = <<>>
    /\ writes = 0
    /\ ops = <<>>
    /\ j = 0
    /\ undoLog = <<>>
    /\ before = fs
    /\ beforeUndo = fs
    /\ removed = 0
    /\ run = 1
    /\ first = <<>>

\* the Organizers of the repeated runs: move mode, the destination outside
\* root or under it, the manifest outside root or under it
RerunOrganizers ==
    {Organizer(<<inbox>>, d, "ext", "mtime", FALSE, <<>>, <<>>, <<>>, mp) :
        d \in Dests, mp \in ManifestPaths \ {<<>>}}

Init == InitWith(InitialFs, Organizers)
\* the repeated runs start from the files named a.txt: in root, in two
\* subdirectories of root, and already under the destination inside root
RerunFs == {FsOf(S) : S \in {T \in SUBSET {1, 2, 3, 7} : Cardinality(T) <= MaxFiles}}
InitRerun == InitWith(RerunFs, RerunOrganizers)
InitFilter == InitWith(InitialFs, FilterOrganizers)

----------------------------------------------------------------------------
(* The operations                                                          *)

\* plan(): FileNotFoundError when root does not exist, otherwise one Move per
\* yielded file, in enumeration order; nothing is written
Plan ==
    /\ pc = "start"
    /\ IF ~Exists(fs, org.root)
       THEN /\ pc' = "plan_error"
            /\ moves' = <<>>
       ELSE \E s \in WalkOrders(YieldedSet(fs, org)) :
                /\ moves' = PlanOf(fs, org, s)
                /\ pc' = IF GroupKnown(org) \/ s = <<>> THEN "planned" ELSE "plan_error"
    /\ UNCHANGED <<fs, org, dry, i, applied, manifest, writes, ops, j, undoLog,
                   before, beforeUndo, removed, run, first>>

\* apply(moves, dry_run): the dry run only logs and returns; a live run
\* starts the for loop with an empty `applied`
ApplyStart ==
    /\ pc = "planned"
    /\ \E dry_run \in BOOLEAN :
        /\ dry' = dry_run
        /\ pc' = IF dry_run THEN "apply_done" ELSE "applying"
    /\ i' = 1
    /\ applied' = <<>>
    /\ before' = fs
    /\ fs' = IF dry' THEN DryRunApply(fs, moves) ELSE fs
    /\ UNCHANGED <<org, moves, manifest, writes, ops, j, undoLog, beforeUndo, removed, run, first>>

\* one iteration of the for loop of a live apply(): mkdir, disambiguate,
\* copy or move, record; an error of mkdir or of the copy/move ends apply()
ApplyMove ==
    /\ pc = "applying"
    /\ i <= Len(moves)
    /\ LET m == moves[i]
           target_dir == Parent(m.dest)
       IN  IF ~MkdirOk(fs, target_dir)
           THEN /\ pc' = "apply_error"
                /\ UNCHANGED <<fs, i, applied>>
           ELSE LET fs1 == Mkdir(fs, target_dir)
                    final_dest == FinalDest(fs1, m.dest)
                IN  IF TransferOk(fs1, org, m.src, final_dest)
                    THEN /\ fs' = Transfer(fs1, org, m.src, final_dest)
                         /\ applied' = Append(applied, Recorded(m, final_dest))
                         /\ i' = i + 1
                         /\ pc' = pc
                    ELSE /\ fs' = fs1
                         /\ pc' = "apply_error"
                         /\ UNCHANGED <<i, applied>>
    /\ UNCHANGED <<org, moves, dry, manifest, writes, ops, j, undoLog, before, beforeUndo, removed, run, first>>

\* the end of a live apply(): the manifest is written when a path was given
ApplyFinish ==
    /\ pc = "applying"
    /\ i > Len(moves)
    /\ IF org.manifest_path = <<>>
       THEN /\ pc' = "applied"
            /\ UNCHANGED <<fs, manifest, writes>>
       ELSE LET dir == Parent(org.manifest_path)
            IN  IF MkdirOk(fs, dir) /\ WriteOk(Mkdir(fs, dir), org.manifest_path)
                THEN /\ fs' = WriteFile(Mkdir(fs, dir), org.manifest_path, "manifest")
                     /\ manifest' = <<ManifestOf(org, applied)>>
                     /\ writes' = writes + 1
                     /\ pc' = "applied"
                ELSE /\ pc' = "apply_error"
                     /\ UNCHANGED <<fs, manifest, writes>>
    /\ UNCHANGED <<org, moves, dry, i, applied, ops, j, undoLog, before, beforeUndo, removed, run, first>>

\* the files the next call reads: the planned sources before apply(), the
\* recorded destinations and the manifest before undo()
ReadNext ==
    IF pc = "planned"
    THEN {moves[k].src : k \in 1..Len(moves)}
    ELSE {PathOf(applied[k][2]) : k \in 1..Len(applied)} \cup {org.manifest_path}

\* another program removes one of these files between plan() and apply(), or
\* between apply() and undo()
EnvRemove ==
    /\ pc \in {"planned", "applied"}
    /\ removed < MaxEnvRemoves
    /\ \E p \in ReadNext :
        /\ IsFile(fs, p)
        /\ fs' = Del(fs, p)
    /\ removed' = removed + 1
    /\ UNCHANGED <<org, pc, moves, dry, i, applied, manifest, writes, ops, j, undoLog,
                   before, beforeUndo, run, first>>

\* undo(dry_run): load() the manifest (an error when it cannot be read)
UndoStart ==
    /\ pc \in {"applied", "apply_done"}
    /\ org.manifest_path # <<>>
    /\ \E dry_run \in BOOLEAN : dry' = dry_run
    /\ IF IsFile(fs, org.manifest_path) /\ fs[org.manifest_path].data = "manifest"
       THEN /\ ops' = manifest[1].operations
            /\ j' = 1
            /\ pc' = "undoing"
       ELSE /\ pc' = "undo_error"
            /\ UNCHANGED <<ops, j>>
    /\ undoLog' = <<>>
    /\ beforeUndo' = fs
    /\ UNCHANGED <<fs, org, moves, i, applied, manifest, writes, before, removed, run, first>>

\* one iteration of `for op in reversed(ops)`: the recorded dest is moved
\* back to the recorded src; a dry run only logs
UndoStep ==
    /\ pc = "undoing"
    /\ j <= Len(ops)
    /\ LET op == Reversed(ops)[j]
           src == UndoSrc(op)
           dest == UndoDest(op)
       IN  IF dry
           THEN /\ fs' = DryRunUndo(fs, op)
                /\ undoLog' = Append(undoLog, [from |-> src, to |-> dest])
                /\ j' = j + 1
                /\ pc' = pc
           ELSE IF ~MkdirOk(fs, Parent(dest))
           THEN /\ pc' = "undo_error"
                /\ UNCHANGED <<fs, j, undoLog>>
           ELSE LET fs1 == Mkdir(fs, Parent(dest))
                IN  IF UndoMoveOk(fs1, src, dest)
                    THEN /\ fs' = ShutilMove(fs1, src, dest)
                         /\ undoLog' = Append(undoLog, [from |-> src, to |-> dest])
                         /\ j' = j + 1
                         /\ pc' = pc
                    ELSE /\ fs' = fs1
                         /\ pc' = "undo_error"
                         /\ UNCHANGED <<j, undoLog>>
    /\ UNCHANGED <<org, moves, dry, i, applied, manifest, writes, ops, before, beforeUndo, removed, run, first>>

\* the end of undo(): it logs len(ops) and returns 0
UndoFinish ==
    /\ pc = "undoing"
    /\ j > Len(ops)
    /\ pc' = "undone"
    /\ UNCHANGED <<fs, org, moves, dry, i, applied, manifest, writes, ops, j, undoLog,
                   before, beforeUndo, removed, run, first>>

Next ==
    \/ Plan
    \/ ApplyStart
    \/ ApplyMove
    \/ ApplyFinish
    \/ EnvRemove
    \/ UndoStart
    \/ UndoStep
    \/ UndoFinish

\* the files other programs put under root after an invocation
Arrived(f) == {p \in DOMAIN f : IsFile(f, p) /\ f[p].data = "new"}

\* between two invocations another program puts a new file where the
\* last invocation took one away
EnvCreate ==
    /\ pc = "applied"
    /\ run < MaxRuns
    /\ Cardinality(Arrived(fs)) < MaxArrivals
    /\ \E k \in 1..Len(applied) :
        LET p == PathOf(applied[k][1])
        IN  /\ ~Exists(fs, p)
            /\ IsDir(fs, Parent(p))
            /\ fs' = Put(fs, p, File("new", "t2", "t2"))
    /\ UNCHANGED <<org, pc, moves, dry, i, applied, manifest, writes, ops, j, undoLog,
                   before, beforeUndo, removed, run, first>>

\* main() is invoked again with the same arguments after a live run: a new
\* Organizer of the same fields, then plan() and apply() as before
Rerun ==
    /\ pc = "applied"
    /\ run < MaxRuns
    /\ run' = run + 1
    /\ first' = <<[applied |-> applied, fs |-> fs]>>
    /\ pc' = "start"
    /\ moves' = <<>>
    /\ applied' = <<>>
    /\ i' = 0
    /\ writes' = 0
    /\ UNCHANGED <<fs, org, dry, manifest, ops, j, undoLog, before, beforeUndo, removed>>

NextRerun ==
    \/ Next
    \/ EnvCreate
    \/ Rerun

Spec == Init /\ [][Next]_vars
SpecRerun == InitRerun /\ [][NextRerun]_vars
SpecFilter == InitFilter /\ [][Next]_vars

----------------------------------------------------------------------------
(* Properties                                                              *)

\* the regular files below directory d, as (path, content) pairs
FilesBelow(f, d) == {<<p, f[p].data>> : p \in {q \in DOMAIN f : IsFile(f, q) /\ IsProperPrefix(d, q)}}

\* a live move-mode apply() and a live undo() have both returned, and no
\* other program touched the files in between
RoundTripDone == pc = "undone" /\ ~dry /\ ~org.copy /\ removed = 0

\* C1 as stated: after apply (move mode, with a manifest) and undo, every moved
\* file is back at its source with its content, no moved file is left at its
\* recorded destination, and the files under root are what they were before
\* apply.
C1_RoundTripAsStated ==
    RoundTripDone =>
        /\ \A k \in 1..Len(moves) :
              /\ IsFile(fs, moves[k].src)
              /\ fs[moves[k].src].data = before[moves[k].src].data
        /\ \A k \in 1..Len(ops) : ~Exists(fs, PathOf(ops[k].dest))
        /\ FilesBelow(fs, org.root) = FilesBelow(before, org.root)

\* C1 amended: the same, except that the manifest file itself, when its path
\* lies under root, is a file the round trip leaves behind: every file under
\* root other than the manifest is what it was before apply.
C1_RoundTrip ==
    RoundTripDone =>
        /\ \A k \in 1..Len(moves) :
              /\ IsFile(fs, moves[k].src)
              /\ fs[moves[k].src].data = before[moves[k].src].data
        /\ \A k \in 1..Len(ops) : ~Exists(fs, PathOf(ops[k].dest))
        /\ FilesBelow(fs, org.root) \ {<<org.manifest_path, "manifest">>}
              = FilesBelow(before, org.root)

\* C1 witness: a round trip of three files whose targets collided, two of
\* them renamed by apply
C1_Witness ==
    /\ RoundTripDone
    /\ Len(ops) = 3
    /\ Cardinality({k \in 1..Len(ops) : PathOf(ops[k].dest) # moves[k].dest}) = 2
    /\ IsProperPrefix(org.root, org.manifest_path)

\* C2: a dry run of apply() changes nothing: no directory is created, no file
\* copied or moved, and no manifest written although a manifest path is set.
C2_DryRunApply ==
    (pc = "apply_done" /\ dry) =>
        /\ fs = before
        /\ manifest = <<>>
        /\ writes = 0
        /\ (org.manifest_path # <<>> => ~Exists(fs, org.manifest_path))

\* C2 witness: a dry run of a non-empty plan with a manifest path set, the
\* destination tree absent before and after
C2_Witness ==
    /\ pc = "apply_done"
    /\ dry
    /\ Len(moves) >= 2
    /\ org.manifest_path # <<>>
    /\ ~Exists(fs, org.dest)

\* the name a.txt with the counter " (n)" before its extension; a.txt for n = 0
NthName(n) == IF n = 0 THEN <<"a", ".", "txt">> ELSE <<"a", CounterToks[n], ".", "txt">>

\* the number of moves before the k-th whose planned target is the k-th's
Earlier(k) == Cardinality({l \in 1..(k - 1) : moves[l].dest = moves[k].dest})

\* no entry named like the target, or like the target with a counter, was in
\* the target's directory when apply() began
FreshTarget(k) ==
    /\ ~Exists(before, moves[k].dest)
    /\ \A n \in 1..Len(CounterToks) : ~Exists(before, Candidate(moves[k].dest, n))

\* C3: in a live apply(), of the moves planned onto one target (no entry of
\* these names being there beforehand) the first processed keeps the name,
\* the next gets " (1)" before the extension, the next " (2)", and all of
\* them exist in the target directory, each with its source's content.
C3_CollisionsInOneRun ==
    (pc \in {"applying", "applied"} /\ ~dry) =>
        \A k \in 1..Len(applied) :
            FreshTarget(k) =>
                /\ Earlier(k) > 0 => Name(moves[k].dest) = <<"a", ".", "txt">>
                /\ PathOf(applied[k][2]) =
                      IF Earlier(k) = 0 THEN moves[k].dest
                      ELSE Append(Parent(moves[k].dest), NthName(Earlier(k)))
                /\ removed = 0 =>
                      /\ IsFile(fs, PathOf(applied[k][2]))
                      /\ fs[PathOf(applied[k][2])].data = before[moves[k].src].data

\* C3 witness: three moves onto one fresh target have been applied, the
\* third under the name "a (2).txt"
C3_Witness ==
    /\ pc = "applied"
    /\ removed = 0
    /\ Len(applied) = 3
    /\ \A k \in 1..3 : FreshTarget(k) /\ moves[k].dest = moves[1].dest
    /\ Name(PathOf(applied[3][2])) = <<"a", " (2)", ".", "txt">>
    /\ IsFile(fs, PathOf(applied[2][2]))

\* what the claims call eligible: a regular file under root, within
\* max_depth, its parent directory not inside the dest tree, matching an
\* include pattern when include is given, and matching no exclude pattern
Eligible(f, o, p) ==
    /\ IsFile(f, p)
    /\ IsProperPrefix(o.root, p)
    /\ (o.max_depth # <<>> => Len(p) - Len(o.root) <= o.max_depth[1])
    /\ ~IsPrefix(o.dest, Parent(p))
    /\ (o.include # <<>> =>
            \E k \in 1..Len(o.include) : PathMatch(RelativeTo(p, o.root), o.include[k]))
    /\ \A k \in 1..Len(o.exclude) : ~PathMatch(RelativeTo(p, o.root), o.exclude[k])

\* C4: plan() returns exactly one Move per eligible file and nothing else; in
\* particular no file whose parent directory is outside dest is left out.
\* (The code leaves out a file whose parent's path merely contains str(dest).)
C4_PlanExactlyEligible ==
    (pc = "planned" /\ removed = 0) =>
        /\ {moves[k].src : k \in 1..Len(moves)} = {p \in DOMAIN fs : Eligible(fs, org, p)}
        /\ \A k, l \in 1..Len(moves) : moves[k].src = moves[l].src => k = l

\* the grouping key of extension mode, name by name
ExtKeyOf(name) ==
    CASE name = <<"a", ".", "txt">> -> <<"txt">>
      [] name = <<"a", " (1)", ".", "txt">> -> <<"txt">>
      [] name = <<"b", ".", "JPG">> -> <<"jpg">>
      [] name = <<"README">> -> <<"no-ext">>
      [] name = <<".", "rc">> -> <<"no-ext">>

\* no two planned targets coincide and none existed when apply() began
NoCollisions ==
    /\ \A k, l \in 1..Len(moves) : moves[k].dest = moves[l].dest => k = l
    /\ \A k \in 1..Len(moves) : ~Exists(before, moves[k].dest)

\* C5: every planned target is dest / grouping key / original file name; in
\* extension mode the key is the lowercased extension without its dot, or
\* "no-ext"; and after a live apply() of a plan without name collisions every
\* planned file is at exactly its target.
C5_TargetOfPlan ==
    /\ pc # "start" =>
          \A k \in 1..Len(moves) :
              /\ IsProperPrefix(org.dest, Parent(moves[k].dest))
              /\ Name(moves[k].dest) = Name(moves[k].src)
              /\ org.by = "ext" =>
                    moves[k].dest = org.dest \o <<ExtKeyOf(Name(moves[k].src)), Name(moves[k].src)>>
    /\ (pc = "applied" /\ removed = 0 /\ NoCollisions) =>
          \A k \in 1..Len(moves) :
              /\ IsFile(fs, moves[k].dest)
              /\ fs[moves[k].dest].data = before[moves[k].src].data
              /\ PathOf(applied[k][2]) = moves[k].dest

\* C5 witness: b.JPG and a file without extension, planned by extension and
\* applied without collisions
C5_Witness ==
    /\ pc = "applied"
    /\ removed = 0
    /\ NoCollisions
    /\ org.by = "ext"
    /\ \E k, l \in 1..Len(moves) :
          /\ moves[k].dest = org.dest \o << <<"jpg">>, <<"b", ".", "JPG">> >>
          /\ moves[l].dest = org.dest \o << <<"no-ext">>, <<".", "rc">> >>
          /\ IsFile(fs, moves[k].dest)

\* C6: the manifest a live apply() writes lists one operation per planned
\* move, in plan order, each with the move's source and the place the file
\* really went to (a new entry holding the source's content), which differs
\* from the planned target when the move was renamed.
C6_ManifestOperations ==
    (pc = "applied" /\ removed = 0 /\ org.manifest_path # <<>>) =>
        /\ writes = 1
        /\ Len(manifest) = 1
        /\ Len(manifest[1].operations) = Len(moves)
        /\ \A k \in 1..Len(moves) :
              LET op == manifest[1].operations[k]
              IN  /\ op.src = PathStr(moves[k].src)
                  /\ IsFile(fs, PathOf(op.dest))
                  /\ fs[PathOf(op.dest)].data = before[moves[k].src].data
                  /\ ~Exists(before, PathOf(op.dest))
                  /\ Parent(PathOf(op.dest)) = Parent(moves[k].dest)
        /\ \A k, l \in 1..Len(moves) :
              manifest[1].operations[k].dest = manifest[1].operations[l].dest => k = l

\* C6 witness: a manifest of three operations, the second recorded under a
\* renamed destination
C6_Witness ==
    /\ pc = "applied"
    /\ removed = 0
    /\ Len(manifest) = 1
    /\ Len(manifest[1].operations) = 3
    /\ PathOf(manifest[1].operations[2].dest) # moves[2].dest
    /\ PathOf(manifest[1].operations[1].dest) = moves[1].dest

\* C7: undo() reverses the operations last-applied-first, one at a time: the
\* k-th reversal it performs is that of operation n + 1 - k of the manifest,
\* from the recorded dest to the recorded src.
C7_UndoOrder ==
    (pc \in {"undoing", "undone", "undo_error"} /\ Len(manifest) = 1) =>
        LET recorded == manifest[1].operations
            n == Len(recorded)
        IN  /\ Len(undoLog) <= n
            /\ \A k \in 1..Len(undoLog) :
                  /\ PathStr(undoLog[k].from) = recorded[n + 1 - k].dest
                  /\ PathStr(undoLog[k].to) = recorded[n + 1 - k].src
            /\ (pc = "undone" => Len(undoLog) = n)

\* C7 witness: a live undo of three operations is under way, the last two
\* already reversed and the first not yet
C7_Witness ==
    /\ pc = "undoing"
    /\ ~dry
    /\ Len(ops) = 3
    /\ Len(undoLog) = 2
    /\ undoLog[1].to = PathOf(ops[3].src)
    /\ IsFile(fs, PathOf(ops[3].src))
    /\ IsFile(fs, PathOf(ops[1].dest))

\* undo() runs live on a manifest it has loaded
LiveUndo == pc \in {"undoing", "undone", "undo_error"} /\ ~dry /\ j >= 1

\* the positions in reversed(ops) of the operations whose file was not at its
\* recorded destination when undo() began
MissingAtUndo == {k \in 1..Len(ops) : ~IsFile(beforeUndo, UndoSrc(Reversed(ops)[k]))}

FirstMissing == CHOOSE k \in MissingAtUndo : \A l \in MissingAtUndo : k <= l

\* C8 as stated: a live undo() is not ended by an operation whose file is
\* missing at its recorded destination: it goes on with the remaining
\* operations and completes.
C8_UndoSurvivesMissingFile ==
    ~(/\ LiveUndo
      /\ pc = "undo_error"
      /\ j <= Len(ops)
      /\ ~Exists(fs, UndoSrc(Reversed(ops)[j]))
      /\ MkdirOk(fs, Parent(UndoDest(Reversed(ops)[j]))))

\* C8 amended: a live undo() is ended by the first operation, in reverse
\* order, whose file is missing at its recorded destination: the error of the
\* move propagates, undo() does not complete, the operations it reversed
\* before stay reversed, and no operation after the missing one (earlier in
\* the manifest) is reversed: its file stays at its recorded destination.
C8_UndoAbortsAtMissingFile ==
    (LiveUndo /\ MissingAtUndo # {}) =>
        /\ pc # "undone"
        /\ j <= FirstMissing
        /\ Len(undoLog) < FirstMissing
        /\ \A k \in 1..Len(undoLog) : IsFile(fs, undoLog[k].to)
        /\ \A k \in (FirstMissing + 1)..Len(ops) :
              \A d \in {UndoSrc(Reversed(ops)[k]), UndoDest(Reversed(ops)[k])} :
                  /\ Exists(fs, d) = Exists(beforeUndo, d)
                  /\ Exists(fs, d) => fs[d] = beforeUndo[d]

\* C8 witness: of three recorded operations the second in reverse order has
\* lost its file; undo() reversed the first, failed on the second and left
\* the third where apply() put it
C8_Witness ==
    /\ LiveUndo
    /\ pc = "undo_error"
    /\ Len(ops) = 3
    /\ MissingAtUndo = {2}
    /\ Len(undoLog) = 1
    /\ ~org.copy
    /\ IsFile(fs, UndoSrc(Reversed(ops)[3]))
    /\ ~Exists(fs, UndoDest(Reversed(ops)[3]))

\* C9: plan() fails with a not-found error whenever root is not an existing
\* directory (absent, or a regular file), returns no moves and changes
\* nothing. (The code tests root.exists(): a root that is a regular file gives
\* an empty plan and no error.)
C9_PlanNeedsRootDirectory ==
    (pc \in {"planned", "plan_error"} /\ removed = 0 /\ ~IsDir(fs, org.root)) =>
        /\ pc = "plan_error"
        /\ moves = <<>>
        /\ fs = before

\* C10: after a live apply() with copy=True every planned source still holds
\* its file, content unchanged, and the recorded final destination holds the
\* same content; with copy=False no planned source holds a file any more and
\* the content is at the recorded final destination only.
C10_CopyVersusMove ==
    (pc = "applied" /\ removed = 0) =>
        /\ Len(applied) = Len(moves)
        /\ \A k \in 1..Len(moves) :
              LET src == moves[k].src
                  final == PathOf(applied[k][2])
                  holders == {p \in DOMAIN fs : IsFile(fs, p) /\ fs[p].data = before[src].data}
              IN  /\ applied[k][1] = PathStr(src)
                  /\ IsFile(fs, final)
                  /\ fs[final].data = before[src].data
                  /\ final # src
                  /\ IF org.copy
                     THEN IsFile(fs, src) /\ fs[src].data = before[src].data
                     ELSE ~Exists(fs, src) /\ holders = {final}

\* C10 witness: a copy run of two files has returned, both sources in place
\* and both copies at their destinations
C10_WitnessCopy ==
    /\ pc = "applied"
    /\ removed = 0
    /\ org.copy
    /\ Len(moves) >= 2
    /\ \A k \in 1..Len(moves) : IsFile(fs, moves[k].src) /\ IsFile(fs, PathOf(applied[k][2]))

\* a live copy-mode apply() and a live undo() have both returned, and no
\* other program touched the files in between
CopyRoundTripDone == pc = "undone" /\ ~dry /\ org.copy /\ removed = 0

\* C11: undo() always moves, also for a copy-mode manifest: after a live
\* apply() with copy=True and then undo(), no entry remains at any recorded
\* final destination, and every recorded source path holds a file with the
\* original content and modification time: the source was replaced by the
\* copy moved back.
C11_UndoOfCopyMoves ==
    CopyRoundTripDone =>
        /\ Len(ops) = Len(moves)
        /\ \A k \in 1..Len(ops) :
              LET src == PathOf(ops[k].src)
              IN  /\ src = moves[k].src
                  /\ ~Exists(fs, PathOf(ops[k].dest))
                  /\ IsFile(fs, src)
                  /\ fs[src] = [before[src] EXCEPT !.ctime = "now"]

\* C11 witness: a copy run of three files, two of them renamed by apply(),
\* has been undone: every copy left its destination for its source
C11_Witness ==
    /\ CopyRoundTripDone
    /\ Len(ops) = 3
    /\ Len(undoLog) = 3
    /\ ops[2].dest # PathStr(moves[2].dest)
    /\ \A k \in 1..3 : IsFile(beforeUndo, PathOf(ops[k].dest)) /\ IsFile(beforeUndo, PathOf(ops[k].src))
    /\ \A k \in 1..3 : ~Exists(fs, PathOf(ops[k].dest)) /\ IsFile(fs, PathOf(ops[k].src))

\* the final destinations the previous invocation recorded
PlacedBefore == {PathOf(first[1].applied[k][2]) : k \in 1..Len(first[1].applied)}

\* the second invocation is in plan() or apply(), or has returned from them
InRerun == run > 1 /\ pc \notin {"undoing", "undone", "undo_error"}

\* C12: when dest lies under root, after a live move-mode plan() and apply()
\* a later plan() over the same root contains no file located under dest, and
\* in every state of a second plan() and apply() every file the first run
\* placed under dest is where the first run put it, unchanged.
C12_RerunKeepsOutput ==
    (InRerun /\ ~org.copy /\ IsProperPrefix(org.root, org.dest)) =>
        /\ \A k \in 1..Len(moves) : ~IsProperPrefix(org.dest, moves[k].src)
        /\ \A d \in PlacedBefore :
              IsFile(first[1].fs, d) => IsFile(fs, d) /\ fs[d] = first[1].fs[d]

\* C12 witness: the second run has moved a newly arrived file whose target
\* the first run had filled: it went to a counter name next to the two files
\* the first run placed, which are still in place
C12_Witness ==
    /\ run = 2
    /\ pc = "applied"
    /\ ~org.copy
    /\ IsProperPrefix(org.root, org.dest)
    /\ Cardinality(PlacedBefore) >= 2
    /\ \A d \in PlacedBefore : IsFile(fs, d) /\ IsProperPrefix(org.dest, d)
    /\ \E k \in 1..Len(applied) :
          /\ moves[k].dest \in PlacedBefore
          /\ PathOf(applied[k][2]) # moves[k].dest
          /\ fs[PathOf(applied[k][2])].data = "new"

\* undo() runs as a dry run on a manifest it has loaded
DryUndo == pc \in {"undoing", "undone", "undo_error"} /\ dry /\ j >= 1

\* C13: undo(dry_run=True) mutates nothing: in every state of the dry run
\* the file system is what it was when undo() was entered (no directory
\* created, no file moved, every recorded destination and source path in
\* the same state), no error ends it, it visits the recorded operations in
\* reverse order and returns having visited every one of them.
C13_DryRunUndo ==
    DryUndo =>
        /\ fs = beforeUndo
        /\ pc # "undo_error"
        /\ Len(undoLog) = j - 1
        /\ \A k \in 1..Len(undoLog) :
              undoLog[k] = [from |-> PathOf(Reversed(ops)[k].dest),
                            to |-> PathOf(Reversed(ops)[k].src)]
        /\ pc = "undone" => Len(undoLog) = Len(ops)

\* C13 witness: a dry-run undo() has returned after visiting three recorded
\* operations, one of which has lost its file, and every other file is
\* still at its recorded destination
C13_Witness ==
    /\ DryUndo
    /\ pc = "undone"
    /\ Len(ops) = 3
    /\ Len(undoLog) = 3
    /\ Cardinality(MissingAtUndo) = 1
    /\ \A k \in 1..3 : k \notin MissingAtUndo => IsFile(fs, UndoSrc(Reversed(ops)[k]))
    /\ ~org.copy
    /\ \A k \in 1..3 : ~Exists(fs, UndoDest(Reversed(ops)[k]))

\* a live apply() was ended by the copy or move of moves[i]
ApplyFailed == pc = "apply_error" /\ i <= Len(moves)

\* C14: when the copy or move of the i-th planned move fails in a live
\* apply(), apply() ends there: the moves before it were applied and recorded
\* and stay applied, no move after it is attempted (its source is as it was
\* when apply() was entered) and no manifest is written. A manifest is
\* written only after every planned move succeeded, at most once per
\* apply(), and once by every live apply() that returns with a manifest path.
C14_AbortAndManifest ==
    /\ ApplyFailed =>
          /\ Len(applied) = i - 1
          /\ ~IsFile(before, moves[i].src) \/ ~MkdirOk(before, Parent(moves[i].dest))
          /\ \A k \in 1..(i - 1) :
                /\ applied[k][1] = PathStr(moves[k].src)
                /\ IsFile(fs, PathOf(applied[k][2]))
                /\ fs[PathOf(applied[k][2])].data = before[moves[k].src].data
                /\ org.copy \/ ~Exists(fs, moves[k].src)
          /\ \A k \in (i + 1)..Len(moves) :
                /\ Exists(fs, moves[k].src) = Exists(before, moves[k].src)
                /\ Exists(fs, moves[k].src) => fs[moves[k].src] = before[moves[k].src]
          /\ writes = 0
          /\ manifest = <<>>
          /\ org.manifest_path # <<>> =>
                Exists(fs, org.manifest_path) = Exists(before, org.manifest_path)
    /\ writes <= 1
    /\ writes = 1 =>
          /\ pc \notin {"planned", "applying", "apply_done", "apply_error"}
          /\ Len(applied) = Len(moves)
          /\ \A k \in 1..Len(moves) : IsFile(before, moves[k].src)
          /\ manifest # <<>>
    /\ (pc = "applied" /\ org.manifest_path # <<>>) => writes = 1

\* C14 witness: of three planned moves the second lost its source before
\* apply(): the first is applied, the third source is untouched, and there
\* is no manifest file
C14_Witness ==
    /\ ApplyFailed
    /\ Len(moves) = 3
    /\ i = 2
    /\ ~Exists(fs, moves[2].src)
    /\ IsFile(fs, PathOf(applied[1][2]))
    /\ IsFile(fs, moves[3].src)
    /\ org.manifest_path # <<>>
    /\ ~Exists(fs, org.manifest_path)

\* a live apply() is in its for loop, has left it, or was ended by an error
InLiveApply == pc \in {"applying", "apply_error"}

\* the regular files of a file system
Files(f) == {p \in DOMAIN f : IsFile(f, p)}

\* the places that hold the content file p had when apply() was entered
Holders(p) == {q \in Files(fs) : fs[q].data = before[p].data}

\* C15: no overwrite, no loss: in every state of a live apply() every file
\* that existed under dest when apply() was entered is at its path,
\* unchanged; the final destinations chosen so far are pairwise distinct;
\* and in move mode every planned file is at exactly one place, its source
\* while not processed and its recorded final destination afterwards, so
\* that the number of files is the one apply() began with.
C15_NoOverwriteNoLoss ==
    InLiveApply =>
        /\ \A p \in Files(before) :
              IsProperPrefix(org.dest, p) => IsFile(fs, p) /\ fs[p] = before[p]
        /\ \A k, l \in 1..Len(applied) : k # l => applied[k][2] # applied[l][2]
        /\ ~org.copy =>
              /\ \A k \in 1..Len(moves) :
                    IsFile(before, moves[k].src) =>
                        Holders(moves[k].src) =
                            {IF k <= Len(applied) THEN PathOf(applied[k][2]) ELSE moves[k].src}
              /\ Cardinality(Files(fs)) = Cardinality(Files(before))

\* C15 witness: a move run of two files named a.txt into a destination that
\* held an a.txt has placed the first beside it under a counter name, and the
\* second is still at its source
C15_Witness ==
    /\ pc = "applying"
    /\ ~org.copy
    /\ Len(moves) = 2
    /\ Len(applied) = 1
    /\ {p \in Files(before) : IsProperPrefix(org.dest, p)} = {moves[1].dest}
    /\ PathOf(applied[1][2]) # moves[1].dest
    /\ IsFile(fs, moves[1].dest)
    /\ IsFile(fs, PathOf(applied[1][2]))
    /\ IsFile(fs, moves[2].src)
    /\ Cardinality(Files(fs)) = 3

\* the name "<stem> (k)<suffix>" made from the stem and suffix of name
CounterName(name, k) == Stem(name) \o <<CounterTok(k)>> \o Suffix(name)

\* dest's sibling of that name
CounterPath(dest, k) == Append(Parent(dest), CounterName(Name(dest), k))

\* C16: every step of a live apply() that executes a move records as final
\* destination the planned target when no entry exists there at that moment,
\* and otherwise "<stem> (k)<suffix>" in the same target directory for the
\* smallest k >= 1 such that no entry exists at that path at that moment,
\* stem and suffix being those of the planned target name.
C16_CounterChoice ==
    [][(pc = "applying" /\ Len(applied') = Len(applied) + 1) =>
          LET planned == moves[i].dest
              final == PathOf(applied'[i][2])
          IN  IF ~Exists(fs, planned)
              THEN final = planned
              ELSE \E k \in 1..Len(CounterToks) :
                      /\ final = CounterPath(planned, k)
                      /\ ~Exists(fs, final)
                      /\ \A l \in 1..(k - 1) : Exists(fs, CounterPath(planned, l))]_vars

\* C16 witness: the planned target and its "(1)" name existed when the move
\* executed, and the file went to the "(2)" name of the planned target
C16_Witness ==
    /\ pc = "applying"
    /\ Len(applied) >= 1
    /\ Exists(before, moves[1].dest)
    /\ Exists(before, CounterPath(moves[1].dest, 1))
    /\ PathOf(applied[1][2]) = CounterPath(moves[1].dest, 2)
    /\ IsFile(fs, CounterPath(moves[1].dest, 2))

\* the number of path segments from root down to and including the file name
Depth(o, p) == Len(RelativeTo(p, o.root))

\* the files plan() takes when no depth limit is set: those that pass the
\* other filters of _iter_files
Unlimited == YieldedSet(fs, [org EXCEPT !.max_depth = <<>>])

\* the sources of the plan
Planned == {moves[k].src : k \in 1..Len(moves)}

\* C17: with max_depth = N plan() includes a file that passes the other
\* filters exactly when its depth, the number of path segments from root
\* down to and including the file name, is at most N. A file directly in root
\* has depth 1; max_depth = 1 plans only direct children of root; max_depth
\* = 0 gives an empty plan; with max_depth unset every depth is eligible.
C17_DepthLimit ==
    (pc = "planned" /\ removed = 0) =>
        /\ Planned = {p \in Unlimited : org.max_depth = <<>> \/ Depth(org, p) <= org.max_depth[1]}
        /\ \A p \in Unlimited : Parent(p) = org.root <=> Depth(org, p) = 1
        /\ org.max_depth = <<1>> => Planned = {p \in Unlimited : Parent(p) = org.root}
        /\ org.max_depth = <<0>> => moves = <<>>
        /\ org.max_depth = <<>> => Planned = Unlimited

\* C17 witness: with max_depth = 1 the plan holds the file directly in root
\* and leaves out a file one directory down that passes the other filters
C17_Witness ==
    /\ pc = "planned"
    /\ removed = 0
    /\ org.max_depth = <<1>>
    /\ Len(moves) = 1
    /\ Parent(moves[1].src) = org.root
    /\ \E p \in Unlimited : Depth(org, p) = 2 /\ p \notin Planned

====
